---- MODULE Spec2Model ----
(***************************************************************************)
(* Model of src/main.py: the ACME customer-support chat loop (main), the   *)
(* handoff table of main_agent, the pydantic input types, the tool and     *)
(* handler functions and the escalation policy handoff_decision.           *)
(*                                                                         *)
(* Text is modelled structurally: an input line is a sequence of one-      *)
(* character strings, a reply is a sequence of text segments (the literal  *)
(* pieces of an f-string and the interpolated field values).               *)
(*                                                                         *)
(* Runner.run is the external agents runtime.  One call is modelled as the *)
(* steps the runtime takes for main_agent: ask the backend, resolve the    *)
(* handoff tool it names, validate the arguments against input_type, call  *)
(* on_handoff, apply input_filter, run the target agent.  Every exception  *)
(* raised inside Runner.run propagates through main(), which has no        *)
(* try/except.                                                             *)
(***************************************************************************)
EXTENDS Integers, Sequences, FiniteSets, TLC

VARIABLES
    pc,          \* position of main(): input, routing, validating,
                 \* dispatching, filtering, agent, print, done, crashed
    user_input,  \* the line last returned by input()
    linesRead,   \* number of lines read by input()
    routerCalls, \* number of Runner.run invocations
    inProgress,  \* number of Runner.run invocations not yet returned/raised
    category,    \* handoff tool name chosen by the backend in this turn
    fields,      \* arguments the backend extracted for the handoff
    handler,     \* on_handoff callback invoked in this turn
    handlerArg,  \* the object that callback was invoked with
    handlerOut,  \* the string that callback returned
    toolItems,   \* whether the run history handed on contains tool items
    reply,       \* response.final_output
    printed,     \* what the last print() of a reply showed
    error,       \* exception that left Runner.run
    params,      \* argument of handoff_decision
    decisions    \* results of the applications of handoff_decision

turnVars == <<category, fields, handler, handlerArg, handlerOut, toolItems, reply>>
policyVars == <<params, decisions>>
loopVars == <<pc, user_input, linesRead, routerCalls, inProgress, printed, error>>
vars == <<pc, user_input, linesRead, routerCalls, inProgress, category, fields,
          handler, handlerArg, handlerOut, toolItems, reply, printed, error,
          params, decisions>>

(***************************************************************************)
(* Bounds                                                                  *)
(***************************************************************************)
MaxTurns == 2
MaxPad == 2
MaxApply == 2

None == "None"
NoText == <<>>

(***************************************************************************)
(* Input lines and the exit test of main()                                 *)
(***************************************************************************)
Whitespace == {" ", "\t"}

LowerChar(c) ==
    CASE c = "E" -> "e"
      [] c = "X" -> "x"
      [] c = "I" -> "i"
      [] c = "T" -> "t"
      [] c = "H" -> "h"
      [] OTHER -> c

Lower(s) == [i \in DOMAIN s |-> LowerChar(s[i])]

RECURSIVE LStrip(_)
LStrip(s) ==
    IF s = <<>> THEN s
    ELSE IF Head(s) \in Whitespace THEN LStrip(Tail(s)) ELSE s

RECURSIVE RStrip(_)
RStrip(s) ==
    IF s = <<>> THEN s
    ELSE IF s[Len(s)] \in Whitespace THEN RStrip(SubSeq(s, 1, Len(s) - 1)) ELSE s

Strip(s) == RStrip(LStrip(s))

ExitWord == <<"e", "x", "i", "t">>

IsExitCommandCaseSensitive(line) == Strip(line) = ExitWord

IsExitCommand(line) == Lower(Strip(line)) = ExitWord

Spaces(n) == [i \in 1..n |-> " "]

Pads == {Spaces(n) : n \in 0..MaxPad} \cup {<<"\t">>}

Words ==
    { <<>>,
      <<"e", "x", "i", "t">>,
      <<"E", "X", "I", "T">>,
      <<"E", "x", "i", "T">>,
      <<"e", "x", "i">>,
      <<"e", "x", "i", "t", "s">>,
      <<"e", "x", " ", "i", "t">>,
      <<"H", "i">> }

Lines == {l \o w \o r : l \in Pads, w \in Words, r \in Pads}

(***************************************************************************)
(* Pydantic input types                                                    *)
(***************************************************************************)
BillingInput == {"customer_id", "billing_issue"}
RefundInput == {"order_id", "refund_reason"}
TechSupportInput == {"issue"}
GeneralInfoInput == {"topic"}

StrVal(v) == [type |-> "str", val |-> v]
IntVal(v) == [type |-> "int", val |-> v]

\* values the backend may put into an argument of a handoff call
ArgValues == {StrVal(""), StrVal("123"), StrVal("damaged"), IntVal("7")}

ValidatesPresence(input_type, args) ==
    \A f \in input_type : f \in DOMAIN args

\* BaseModel validation: every declared field present and a str
Validates(input_type, args) ==
    \A f \in input_type : f \in DOMAIN args /\ args[f].type = "str"

(***************************************************************************)
(* Tool functions                                                          *)
(***************************************************************************)
billing_status_tool(data) ==
    <<"Billing for Customer ID ", data["customer_id"].val, " regarding '",
      data["billing_issue"].val, "' has been cleared successfully.">>

refund_status_tool(data) ==
    <<"Refund for Order ID ", data["order_id"].val,
      " has been processed successfully due to: ", data["refund_reason"].val, ".">>

general_info_tool(data) ==
    <<"Here is the information you requested about '", data["topic"].val, "'.">>

tech_support_tool(data) ==
    <<"Here are some steps to troubleshoot your issue with '", data["issue"].val, "'.">>

(***************************************************************************)
(* Escalation policy                                                       *)
(***************************************************************************)
EscalateMsg ==
    "I am escalating your request to a human agent because it involves a sensitive or complex matter."
HandledMsg == "AI agent handled the query successfully."

sensitiveWithTechSupport == {"legal", "complaint", "tech_support"}

sensitiveWithoutLegal == {"complaint", "technical"}

sensitive == {"legal", "complaint", "technical"}

handoff_decision(p) ==
    IF p.input_type \in sensitive THEN EscalateMsg ELSE HandledMsg

(***************************************************************************)
(* Handlers                                                                *)
(***************************************************************************)
custom_billing_handler(data) ==
    <<"Let me check your billing status... ">> \o billing_status_tool(data)

custom_refund_handler(data) ==
    <<"Let me process your refund... ">> \o refund_status_tool(data)

custom_tech_support_handler(data) ==
    <<"Let me assist with your technical issue... ">> \o tech_support_tool(data)

custom_info_handler(data) ==
    <<"Let me get that information for you... ">> \o general_info_tool(data)

RunHandler(h, data) ==
    CASE h = "custom_billing_handler" -> custom_billing_handler(data)
      [] h = "custom_refund_handler" -> custom_refund_handler(data)
      [] h = "custom_tech_support_handler" -> custom_tech_support_handler(data)
      [] h = "custom_info_handler" -> custom_info_handler(data)

(***************************************************************************)
(* The handoff table of main_agent, keyed by tool_name_override            *)
(***************************************************************************)
Handoff(agent, input_type, input_filter, on_handoff) ==
    [agent |-> agent, input_type |-> input_type,
     input_filter |-> input_filter, on_handoff |-> on_handoff]

handoffs ==
    [t \in {"billing_status_tool", "refund_status_tool",
            "general_info_tool", "tech_support_tool"} |->
        CASE t = "billing_status_tool" ->
                Handoff("billing_agent", BillingInput, "remove_all_tools",
                        "custom_billing_handler")
          [] t = "refund_status_tool" ->
                Handoff("refund_agent", RefundInput, "remove_all_tools",
                        "custom_refund_handler")
          [] t = "general_info_tool" ->
                Handoff("info_agent", GeneralInfoInput, None,
                        "custom_info_handler")
          [] t = "tech_support_tool" ->
                Handoff("tech_support_agent", TechSupportInput, "remove_all_tools",
                        "custom_tech_support_handler")]

\* names a backend may produce that are bound to no handoff
UnknownTools == {"technical", "shipping_tool"}

\* argument objects the backend may extract for a handoff tool
ArgsFor(t) ==
    UNION {[S -> ArgValues] : S \in SUBSET handoffs[t].input_type}

\* free text produced by the backend (main agent or a specialized agent)
BackendTexts ==
    { <<"Hello! How can I assist you today?">>,
      <<"I am sorry for the inconvenience; your request has been taken care of.">> }

\* whether calling the object produced by @function_tool succeeds
FunctionToolCallable == BOOLEAN

(***************************************************************************)
(* Initial state: main() is about to call input() for the first time       *)
(***************************************************************************)
NoTurn ==
    /\ category = None
    /\ fields = <<>>
    /\ handler = None
    /\ handlerArg = <<>>
    /\ handlerOut = NoText
    /\ toolItems = FALSE
    /\ reply = NoText

NoParams == [input_type |-> None, input_filter |-> None, on_handoff |-> None]

Init ==
    /\ pc = "input"
    /\ user_input = <<>>
    /\ linesRead = 0
    /\ routerCalls = 0
    /\ inProgress = 0
    /\ printed = NoText
    /\ error = None
    /\ NoTurn
    /\ params = NoParams
    /\ decisions = <<>>

ResetTurn ==
    /\ category' = None
    /\ fields' = <<>>
    /\ handler' = None
    /\ handlerArg' = <<>>
    /\ handlerOut' = NoText
    /\ toolItems' = FALSE
    /\ reply' = NoText

\* an exception leaves Runner.run and, uncaught, main()
Raise(e) ==
    /\ pc' = "crashed"
    /\ error' = e
    /\ inProgress' = inProgress - 1

(***************************************************************************)
(* main(): input(), the exit test, and the call of Runner.run              *)
(***************************************************************************)
ReadLineWithoutAwait(line) ==
    /\ pc \in {"input", "routing", "validating", "dispatching", "filtering", "agent"}
    /\ linesRead < MaxTurns
    /\ user_input' = line
    /\ linesRead' = linesRead + 1
    /\ IF IsExitCommand(line)
       THEN /\ pc' = "done"
            /\ UNCHANGED <<routerCalls, inProgress>>
       ELSE /\ pc' = "routing"
            /\ routerCalls' = routerCalls + 1
            /\ inProgress' = inProgress + 1
    /\ ResetTurn
    /\ UNCHANGED <<printed, error, policyVars>>

ReadLine(line) ==
    /\ pc = "input"
    /\ linesRead < MaxTurns
    /\ user_input' = line
    /\ linesRead' = linesRead + 1
    /\ IF IsExitCommand(line)
       THEN /\ pc' = "done"
            /\ UNCHANGED <<routerCalls, inProgress>>
       ELSE /\ pc' = "routing"
            /\ routerCalls' = routerCalls + 1
            /\ inProgress' = inProgress + 1
    /\ ResetTurn
    /\ UNCHANGED <<printed, error, policyVars>>

\* Runner.run has returned: print the reply and loop
PrintReply ==
    /\ pc = "print"
    /\ printed' = <<"SupportBot: ">> \o reply
    /\ pc' = "input"
    /\ ResetTurn
    /\ UNCHANGED <<user_input, linesRead, routerCalls, inProgress, error, policyVars>>

(***************************************************************************)
(* Runner.run(starting_agent=main_agent, input=user_input)                 *)
(***************************************************************************)
\* the request to the backend times out or its response is malformed
BackendFails ==
    /\ pc \in {"routing", "agent"}
    /\ Raise("BackendError")
    /\ UNCHANGED <<user_input, linesRead, routerCalls, printed, turnVars, policyVars>>

\* the backend answers main_agent's request with plain text
BackendReplies(text) ==
    /\ pc = "routing"
    /\ reply' = text
    /\ pc' = "print"
    /\ inProgress' = inProgress - 1
    /\ UNCHANGED <<user_input, linesRead, routerCalls, printed, error, policyVars,
                   category, fields, handler, handlerArg, handlerOut, toolItems>>

\* the backend names a handoff tool and extracts its arguments
BackendSelects(tool, args) ==
    /\ pc = "routing"
    /\ tool \in DOMAIN handoffs
    /\ category' = tool
    /\ fields' = args
    /\ toolItems' = TRUE
    /\ pc' = "validating"
    /\ UNCHANGED <<user_input, linesRead, routerCalls, inProgress, printed, error,
                   policyVars, handler, handlerArg, handlerOut, reply>>

\* the backend names a tool that main_agent does not have
BackendSelectsUnknown(tool) ==
    /\ pc = "routing"
    /\ tool \notin DOMAIN handoffs
    /\ category' = tool
    /\ Raise("ModelBehaviorError: tool not found")
    /\ UNCHANGED <<user_input, linesRead, routerCalls, printed, policyVars,
                   fields, handler, handlerArg, handlerOut, toolItems, reply>>

\* the handoff's arguments are validated against its input_type
Validate ==
    /\ pc = "validating"
    /\ IF Validates(handoffs[category].input_type, fields)
       THEN /\ pc' = "dispatching"
            /\ UNCHANGED <<inProgress, error>>
       ELSE Raise("ModelBehaviorError: invalid input")
    /\ UNCHANGED <<user_input, linesRead, routerCalls, printed, policyVars, turnVars>>

\* on_handoff(ctx, validated_input): the handler calls its tool object
Dispatch(callable) ==
    /\ pc = "dispatching"
    /\ handler' = handoffs[category].on_handoff
    /\ handlerArg' = fields
    /\ IF callable
       THEN /\ handlerOut' = RunHandler(handoffs[category].on_handoff, fields)
            /\ pc' = "filtering"
            /\ UNCHANGED <<inProgress, error>>
       ELSE /\ Raise("TypeError")
            /\ UNCHANGED handlerOut
    /\ UNCHANGED <<user_input, linesRead, routerCalls, printed, policyVars,
                   category, fields, toolItems, reply>>

\* input_filter, when the handoff has one, strips tool items from the history
Filter ==
    /\ pc = "filtering"
    /\ toolItems' = IF handoffs[category].input_filter = "remove_all_tools"
                    THEN FALSE ELSE toolItems
    /\ pc' = "agent"
    /\ UNCHANGED <<user_input, linesRead, routerCalls, inProgress, printed, error,
                   policyVars, category, fields, handler, handlerArg, handlerOut, reply>>

\* the agent handed off to produces the final output of the run
AgentReplies(text) ==
    /\ pc = "agent"
    /\ reply' = text
    /\ pc' = "print"
    /\ inProgress' = inProgress - 1
    /\ UNCHANGED <<user_input, linesRead, routerCalls, printed, error, policyVars,
                   category, fields, handler, handlerArg, handlerOut, toolItems>>

Next ==
    \/ \E line \in Lines : ReadLine(line)
    \/ PrintReply
    \/ BackendFails
    \/ \E text \in BackendTexts : BackendReplies(text)
    \/ \E tool \in DOMAIN handoffs : \E args \in ArgsFor(tool) : BackendSelects(tool, args)
    \/ \E tool \in UnknownTools : BackendSelectsUnknown(tool)
    \/ Validate
    \/ \E callable \in FunctionToolCallable : Dispatch(callable)
    \/ Filter
    \/ \E text \in BackendTexts : AgentReplies(text)

Spec == Init /\ [][Next]_vars

(***************************************************************************)
(* handoff_decision applied to arbitrary HandoffParams                     *)
(***************************************************************************)
InputTypes ==
    {"billing", "refund", "general_info", "tech_support",
     "legal", "complaint", "technical",
     "billing_status_tool", "tech_support_tool", "BillingInput", ""}

HandoffParams ==
    [input_type : InputTypes,
     input_filter : {None, "remove_all_tools"},
     on_handoff : {None, "custom_billing_handler"}]

InitPolicy ==
    /\ pc = "input"
    /\ user_input = <<>>
    /\ linesRead = 0
    /\ routerCalls = 0
    /\ inProgress = 0
    /\ printed = NoText
    /\ error = None
    /\ NoTurn
    /\ params \in HandoffParams
    /\ decisions = <<>>

Decide ==
    /\ Len(decisions) < MaxApply
    /\ decisions' = Append(decisions, handoff_decision(params))
    /\ UNCHANGED <<params, loopVars, turnVars>>

NextPolicy == Decide

SpecPolicy == InitPolicy /\ [][NextPolicy]_vars

(***************************************************************************)
(* Vocabulary of the properties, stated independently of the operators     *)
(* above                                                                   *)
(***************************************************************************)
Segments(text) == {text[i] : i \in DOMAIN text}

\* the empty string occurs in every text
Contains(text, v) == v = "" \/ v \in Segments(text)

Blank(c) == c = " " \/ c = "\t"

\* whitespace, then e x i t in either case, then whitespace
IsExitLine(line) ==
    \E i \in 0..Len(line) :
        /\ Len(line) >= i + 4
        /\ \A k \in 1..i : Blank(line[k])
        /\ line[i + 1] \in {"e", "E"}
        /\ line[i + 2] \in {"x", "X"}
        /\ line[i + 3] \in {"i", "I"}
        /\ line[i + 4] \in {"t", "T"}
        /\ \A k \in (i + 5)..Len(line) : Blank(line[k])

RequiredFields(tool) ==
    CASE tool = "billing_status_tool" -> {"customer_id", "billing_issue"}
      [] tool = "refund_status_tool" -> {"order_id", "refund_reason"}
      [] tool = "general_info_tool" -> {"topic"}
      [] tool = "tech_support_tool" -> {"issue"}
      [] OTHER -> {}

BoundHandler(tool) ==
    CASE tool = "billing_status_tool" -> "custom_billing_handler"
      [] tool = "refund_status_tool" -> "custom_refund_handler"
      [] tool = "general_info_tool" -> "custom_info_handler"
      [] tool = "tech_support_tool" -> "custom_tech_support_handler"
      [] OTHER -> None

KnownTool(tool) == RequiredFields(tool) # {}

WellFormed(tool, args) ==
    /\ KnownTool(tool)
    /\ \A f \in RequiredFields(tool) : f \in DOMAIN args /\ args[f].type = "str"

Escalates(c) == c \in {"legal", "complaint", "technical"}

ClarificationReply == <<"I couldn't understand that request, could you rephrase?">>

TurnOver == pc \in {"print", "crashed"}

(***************************************************************************)
(* C1: processing one turn never raises: every turn ends by returning a    *)
(* reply, whatever the input line and whatever the backend does (timeout,  *)
(* malformed response, unknown category).                                  *)
(***************************************************************************)
C1_TurnNeverRaises == error = None /\ pc # "crashed"

(***************************************************************************)
(* C2: when the arguments extracted for the chosen category fail           *)
(* validation, the turn ends with the fixed clarification reply, the       *)
(* Router is idle again and no handler has been invoked.                   *)
(***************************************************************************)
C2_InvalidInputGetsClarification ==
    (KnownTool(category) /\ ~WellFormed(category, fields) /\ pc # "validating")
        => /\ pc = "print"
           /\ reply = ClarificationReply
           /\ inProgress = 0
           /\ handler = None

(***************************************************************************)
(* C3: the conversation loop ends only on a line that is the exit command; *)
(* no error of a turn ends it.                                             *)
(***************************************************************************)
C3_LoopEndsOnlyOnExit ==
    pc \in {"done", "crashed"} => IsExitLine(user_input)

(***************************************************************************)
(* C4: a line that is 'exit' after trimming whitespace and lower-casing    *)
(* ends the loop without a Router invocation; every other line read causes *)
(* exactly one Router invocation, and nothing else invokes the Router.     *)
(***************************************************************************)
C4_ExitLineSkipsRouter ==
    [][ /\ (linesRead' = linesRead + 1 /\ IsExitLine(user_input'))
            => (pc' = "done" /\ routerCalls' = routerCalls)
        /\ (linesRead' = linesRead + 1 /\ ~IsExitLine(user_input'))
            => (pc' = "routing" /\ routerCalls' = routerCalls + 1)
        /\ (linesRead' = linesRead) => (routerCalls' = routerCalls) ]_vars

C4_Witness ==
    /\ pc = "done"
    /\ user_input = <<"E", "X", "I", "T", " ", " ">>
    /\ linesRead = 2
    /\ routerCalls = 1

(***************************************************************************)
(* C5: the escalation policy depends on the category alone: every          *)
(* application to the same parameters yields the escalation message        *)
(* exactly when the category is legal, complaint or technical, and the     *)
(* handled-autonomously message otherwise.                                 *)
(***************************************************************************)
C5_PolicyDependsOnCategoryOnly ==
    \A i \in DOMAIN decisions :
        /\ Escalates(params.input_type) => decisions[i] = EscalateMsg
        /\ ~Escalates(params.input_type) => decisions[i] = HandledMsg
        /\ EscalateMsg # HandledMsg

C5_Witness ==
    /\ params.input_type = "legal"
    /\ params.on_handoff # None
    /\ Len(decisions) = 2
    /\ decisions[1] = EscalateMsg
    /\ decisions[2] = EscalateMsg

(***************************************************************************)
(* C6: when the category chosen in a turn is one the escalation policy     *)
(* escalates, the reply of that turn says that the request is handed to a  *)
(* human agent.                                                            *)
(***************************************************************************)
C6_EscalatedTurnSaysSo ==
    (TurnOver /\ category # None /\ Escalates(category))
        => (pc = "print" /\ Contains(reply, EscalateMsg))

(***************************************************************************)
(* C7: when the backend selects the refund category with valid fields,     *)
(* the reply of the turn contains the order id, the refund reason and the  *)
(* refund handler's narration prefix.                                      *)
(***************************************************************************)
C7_RefundReplyIsHandlerOutput ==
    (pc = "print" /\ category = "refund_status_tool" /\ WellFormed(category, fields))
        => /\ Contains(reply, "Let me process your refund... ")
           /\ Contains(reply, fields["order_id"].val)
           /\ Contains(reply, fields["refund_reason"].val)

(***************************************************************************)
(* C8: turns never overlap: a line is read only while no turn is in        *)
(* progress, and at most one turn is in progress at any time.              *)
(***************************************************************************)
C8_TurnsNeverOverlap ==
    [][ /\ (linesRead' # linesRead) => (inProgress = 0)
        /\ inProgress' <= 1 ]_vars

C8_Witness ==
    /\ linesRead = 2
    /\ routerCalls = 2
    /\ inProgress = 1
    /\ pc = "agent"

(***************************************************************************)
(* C9: a handler has run in a turn only if the backend selected a          *)
(* category of the dispatch table and the arguments passed validation; it  *)
(* is the handler bound to that category and it received those arguments.  *)
(* A turn answered by a direct textual reply has run no handler.           *)
(***************************************************************************)
C9_HandlerOnlyAfterValidation ==
    /\ handler # None =>
          /\ WellFormed(category, fields)
          /\ handler = BoundHandler(category)
          /\ handlerArg = fields
          /\ pc \in {"filtering", "agent", "print", "crashed"}
    /\ (category = None \/ pc \in {"routing", "validating", "dispatching"})
          => (handler = None /\ handlerOut = NoText)

C9_Witness ==
    /\ pc = "print"
    /\ category = "tech_support_tool"
    /\ handler = "custom_tech_support_handler"
    /\ handlerArg = [f \in {"issue"} |-> [type |-> "str", val |-> "damaged"]]

(***************************************************************************)
(* C10: for billing, refund, general_info and tech_support the escalation  *)
(* policy answers handled-autonomously; tech_support is not escalated.     *)
(***************************************************************************)
C10_DefinedCategoriesNotEscalated ==
    params.input_type \in {"billing", "refund", "general_info", "tech_support"}
        => \A i \in DOMAIN decisions : decisions[i] = HandledMsg

C10_Witness ==
    /\ params.input_type = "tech_support"
    /\ Len(decisions) >= 1
    /\ decisions[1] = HandledMsg

====
